---- MODULE Spec2Model ----
(***************************************************************************)
(* Model of src/settings.rs of the annotations policy: the Settings        *)
(* wrapper around BaseSettings, its Default, and Validatable::validate      *)
(* with the annotation-name regular expression.                             *)
(*                                                                          *)
(* A Rust String is a sequence of one-character strings.  A HashSet<String> *)
(* is a record [elems, iter]: its elements and the order in which .iter()   *)
(* yields them.  That order is fixed for an unmodified set but is not        *)
(* determined by the elements (RandomState seeds every set differently), so  *)
(* construction chooses it nondeterministically.                            *)
(***************************************************************************)
EXTENDS Integers, Sequences, FiniteSets, TLC

VARIABLES settings, result, calls

vars == <<settings, result, calls>>

\* ------------------------------------------------------------------ bounds
\* largest configured set built by Deserialize
MaxKeys == 2
\* longest string enumerated exhaustively over Alphabet
MaxLen == 5
\* validate() calls counted on one Settings value
MaxCalls == 2

\* two Settings values, so that a pair of them can be compared
Slots == {1, 2}

\* --------------------------------------------------------------- characters
Lower == {"a","b","c","d","e","f","g","h","i","j","k","l","m",
          "n","o","p","q","r","s","t","u","v","w","x","y","z"}
Upper == {"A","B","C","D","E","F","G","H","I","J","K","L","M",
          "N","O","P","Q","R","S","T","U","V","W","X","Y","Z"}
Digit == {"0","1","2","3","4","5","6","7","8","9"}

\* one representative of every character class the rule distinguishes
Alphabet == {"a", "A", "0", "-", "_", ".", "/", " ", "@", "\n"}

\* ------------------------------------------------------------------- regex
\* Regex syntax trees: <<"start">> is ^, <<"end">> is $, <<"class", S>> a
\* character class, <<"seq", <<r1, .., rn>>>> concatenation, <<"opt", r>>
\* is (r)?, <<"star", r>> is (r)*.
ReStart == <<"start">>
ReEnd == <<"end">>
ReClass(S) == <<"class", S>>
ReSeq(rs) == <<"seq", rs>>
ReOpt(r) == <<"opt", r>>
ReStar(r) == <<"star", r>>

\* variant of DnsLabelRegex: the labels also take uppercase letters
DnsLabelRegex_AnyCase ==
  ReSeq(<<ReClass(Upper \cup Lower \cup Digit),
          ReOpt(ReSeq(<<ReStar(ReClass({"-"} \cup Upper \cup Lower \cup Digit)),
                        ReClass(Upper \cup Lower \cup Digit)>>))>>)

\* [a-z0-9]([-a-z0-9]*[a-z0-9])?
DnsLabelRegex ==
  ReSeq(<<ReClass(Lower \cup Digit),
          ReOpt(ReSeq(<<ReStar(ReClass({"-"} \cup Lower \cup Digit)),
                        ReClass(Lower \cup Digit)>>))>>)

\* variant of KeyRegex: the key takes no uppercase letter
KeyRegex_LowerCase ==
  ReSeq(<<ReClass(Lower \cup Digit),
          ReOpt(ReSeq(<<ReStar(ReClass(Lower \cup Digit \cup {"_", ".", "-"})),
                        ReClass(Lower \cup Digit)>>))>>)

\* [A-Za-z0-9]([A-Za-z0-9_.-]*[A-Za-z0-9])?
KeyRegex ==
  ReSeq(<<ReClass(Upper \cup Lower \cup Digit),
          ReOpt(ReSeq(<<ReStar(ReClass(Upper \cup Lower \cup Digit \cup {"_", ".", "-"})),
                        ReClass(Upper \cup Lower \cup Digit)>>))>>)

\* variant of ANNOTATIONS_NAME_REGEX: the pattern without ^ and $
ANNOTATIONS_NAME_REGEX_Unanchored ==
  ReSeq(<<ReOpt(ReSeq(<<DnsLabelRegex,
                        ReStar(ReSeq(<<ReClass({"."}), DnsLabelRegex>>)),
                        ReClass({"/"})>>)),
          KeyRegex>>)

\* ^(label(\.label)*/)?key$
ANNOTATIONS_NAME_REGEX ==
  ReSeq(<<ReStart,
          ReOpt(ReSeq(<<DnsLabelRegex,
                        ReStar(ReSeq(<<ReClass({"."}), DnsLabelRegex>>)),
                        ReClass({"/"})>>)),
          KeyRegex,
          ReEnd>>)

RECURSIVE Ends(_, _, _)
RECURSIVE SeqEnds(_, _, _, _)
RECURSIVE StarEnds(_, _, _, _)

\* The positions (0..Len(s)) at which a match of re can end when it starts
\* at one of the positions in from.  Without the multi-line flag ^ matches
\* only at offset 0 and $ only at the end of the haystack.
Ends(re, s, from) ==
  CASE re[1] = "start" -> from \cap {0}
    [] re[1] = "end"   -> from \cap {Len(s)}
    [] re[1] = "class" -> {i + 1 : i \in {j \in from : j < Len(s) /\ s[j + 1] \in re[2]}}
    [] re[1] = "seq"   -> SeqEnds(re[2], 1, s, from)
    [] re[1] = "opt"   -> from \cup Ends(re[2], s, from)
    [] re[1] = "star"  -> StarEnds(re[2], s, from, from)

SeqEnds(rs, k, s, from) ==
  IF k > Len(rs) \/ from = {} THEN from
  ELSE SeqEnds(rs, k + 1, s, Ends(rs[k], s, from))

StarEnds(r, s, acc, frontier) ==
  IF frontier = {} THEN acc
  ELSE LET next == Ends(r, s, frontier) \ acc
       IN StarEnds(r, s, acc \cup next, next)

\* Regex::is_match: an unanchored search, some start offset has a match
is_match(re, s) == Ends(re, s, 0..Len(s)) # {}

\* ----------------------------------------------------------------- strings
RECURSIVE join(_, _)
\* [String]::join(sep)
join(strs, sep) ==
  IF strs = <<>> THEN <<>>
  ELSE IF Len(strs) = 1 THEN strs[1]
  ELSE strs[1] \o sep \o join(Tail(strs), sep)

\* "Invalid annotation names: "
InvalidNamesPrefix ==
  <<"I","n","v","a","l","i","d"," ","a","n","n","o","t","a","t","i","o","n",
    " ","n","a","m","e","s",":"," ">>

\* variant of Separator: a comma without the space
Separator_NoSpace == <<",">>

\* ", "
Separator == <<",", " ">>

\* ---------------------------------------------------------------- results
\* Result<(), String>
Ok == [ok |-> TRUE, msg |-> <<>>]
Err(m) == [ok |-> FALSE, msg |-> m]

\* ----------------------------------------------------------- BaseSettings
\* the two variants of BaseSettings this file constructs
Variants == {"ContainsAnyOf", "ContainsAllOf"}

\* the message of BaseSettings::validate's error, an opaque text
BaseSettingsError == <<"values must not be empty">>

\* BaseSettings::validate: fails when the list of keys is empty
BaseSettings_validate(base) ==
  IF base.values.elems = {} THEN Err(BaseSettingsError) ELSE Ok

\* BaseSettings::values: the configured set, whatever the variant
BaseSettings_values(base) == base.values

\* ---------------------------------------------------------------- Settings
\* HashSet::new()
EmptyHashSet == [elems |-> {}, iter |-> <<>>]

\* variant of default: the other variant
default_AllOf == [criteria |-> "ContainsAllOf", values |-> EmptyHashSet]

\* Settings::default()
default == [criteria |-> "ContainsAnyOf", values |-> EmptyHashSet]

RECURSIVE invalid_annots_Inverted(_)
\* variant of invalid_annots: the test of the filter is inverted
invalid_annots_Inverted(iter) ==
  IF iter = <<>> THEN <<>>
  ELSE IF is_match(ANNOTATIONS_NAME_REGEX, Head(iter))
       THEN <<Head(iter)>> \o invalid_annots_Inverted(Tail(iter))
       ELSE invalid_annots_Inverted(Tail(iter))

RECURSIVE invalid_annots(_)
\* annots.iter().filter_map(..).collect(): the strings the regex rejects,
\* in iteration order
invalid_annots(iter) ==
  IF iter = <<>> THEN <<>>
  ELSE IF is_match(ANNOTATIONS_NAME_REGEX, Head(iter))
       THEN invalid_annots(Tail(iter))
       ELSE <<Head(iter)>> \o invalid_annots(Tail(iter))

\* variant of validate: the result of BaseSettings::validate is dropped
validate_BaseIgnored(self) ==
  LET annots == BaseSettings_values(self)
      invalid_annot == invalid_annots(annots.iter)
  IN IF invalid_annot # <<>>
     THEN Err(InvalidNamesPrefix \o join(invalid_annot, Separator))
     ELSE Ok

\* variant of validate: only the first rejected string is reported
validate_FirstOnly(self) ==
  LET base == BaseSettings_validate(self)
  IN IF ~base.ok THEN base
     ELSE LET annots == BaseSettings_values(self)
              invalid_annot == invalid_annots(annots.iter)
          IN IF invalid_annot # <<>>
             THEN Err(InvalidNamesPrefix \o Head(invalid_annot))
             ELSE Ok

\* variant of validate: the names are checked for ContainsAllOf only
validate_AllOfOnly(self) ==
  LET base == BaseSettings_validate(self)
  IN IF ~base.ok THEN base
     ELSE LET annots == BaseSettings_values(self)
              invalid_annot == invalid_annots(annots.iter)
          IN IF invalid_annot # <<>> /\ self.criteria = "ContainsAllOf"
             THEN Err(InvalidNamesPrefix \o join(invalid_annot, Separator))
             ELSE Ok

\* Settings::validate
validate(self) ==
  LET base == BaseSettings_validate(self)
  IN IF ~base.ok THEN base
     ELSE LET annots == BaseSettings_values(self)
              invalid_annot == invalid_annots(annots.iter)
          IN IF invalid_annot # <<>>
             THEN Err(InvalidNamesPrefix \o join(invalid_annot, Separator))
             ELSE Ok

\* ------------------------------------------------------------------ inputs
Str(n) == [1..n -> Alphabet]

\* keys the configurations are built from: two well-formed, two ill-formed
Pool == { <<"a">>, <<"a", "/", "b">>, <<"-", "a">>, <<"a", "/">> }

\* the duplicate-free sequences enumerating exactly the set S
Orderings(S) ==
  {f \in [1..Cardinality(S) -> S] : \A i, j \in 1..Cardinality(S) : f[i] = f[j] => i = j}

HashSets(keys, max) ==
  UNION {{[elems |-> S, iter |-> o] : o \in Orderings(S)} :
           S \in {T \in SUBSET keys : Cardinality(T) <= max}}

\* the strings of tests::test_validation expected to pass
TableValid ==
  { <<"m","y","-","a","n","n","o","t","a","t","i","o","n">>,
    <<"m","y",".","a","n","n","o","t","a","t","i","o","n">>,
    <<"m","y","_","a","n","n","o","t","a","t","i","o","n">>,
    <<"e","x","a","m","p","l","e",".","c","o","m","/","m","y","-","a","n","n","o","t","a","t","i","o","n">>,
    <<"f","o","o",".","b","a","r",".","b","a","z","/","q","u","x">>,
    <<"a","/","b">>,
    <<"a","b","c","1","2","3">>,
    <<"a","b","c","/","d","e","f",".","g","h","i","_","j","k","l","-","m","n","o">> }

\* the strings of tests::test_validation expected to fail
TableInvalid ==
  { <<"/","m","y","-","a","n","n","o","t","a","t","i","o","n">>,
    <<"e","x","a","m","p","l","e",".","c","o","m","/">>,
    <<"-","m","y","-","a","n","n","o","t","a","t","i","o","n">>,
    <<"e","x","a","m","p","l","e",".","c","o","m","/","-","m","y","-","a","n","n","o","t","a","t","i","o","n">>,
    <<"e","x","a","m","p","l","e",".","c","o","m","/","m","y","-","a","n","n","o","t","a","t","i","o","n","-">>,
    <<"e","x","a","m","p","l","e",".","c","o","m","/","m","y"," ","a","n","n","o","t","a","t","i","o","n">>,
    <<"e","x","a","m","p","l","e",".","c","o","m","/","m","y","@","a","n","n","o","t","a","t","i","o","n">>,
    <<"E","x","a","m","p","l","e",".","c","o","m","/","m","y","-","a","n","n","o","t","a","t","i","o","n">>,
    <<"e","x","a","m","p","l","e",".",".","c","o","m","/","m","y","-","a","n","n","o","t","a","t","i","o","n">> }

\* the strings the naming rule is exercised on
RuleStrings == UNION {Str(n) : n \in 0..MaxLen} \cup TableValid \cup TableInvalid

\* ----------------------------------------------------------------- actions
\* the value result holds before the first validate() call
NoResult == Err(<<>>)

Init ==
  /\ settings = [i \in Slots |-> default]
  /\ result = [i \in Slots |-> NoResult]
  /\ calls = [i \in Slots |-> 0]

\* slot i receives Settings::default()
Default(i) ==
  /\ settings' = [settings EXCEPT ![i] = default]
  /\ result' = [result EXCEPT ![i] = NoResult]
  /\ calls' = [calls EXCEPT ![i] = 0]

\* slot i receives a Settings value built from a configuration
Deserialize(i) ==
  \E c \in Variants, hs \in HashSets(Pool, MaxKeys) :
    /\ settings' = [settings EXCEPT ![i] = [criteria |-> c, values |-> hs]]
    /\ result' = [result EXCEPT ![i] = NoResult]
    /\ calls' = [calls EXCEPT ![i] = 0]

\* variant of Validate: the call takes the strings out of the set
Validate_Consuming(i) ==
  /\ calls[i] < MaxCalls
  /\ result' = [result EXCEPT ![i] = validate(settings[i])]
  /\ calls' = [calls EXCEPT ![i] = calls[i] + 1]
  /\ settings' = [settings EXCEPT ![i].values = EmptyHashSet]

\* settings[i].validate(): takes &self, so the value is left as it is
Validate(i) ==
  /\ calls[i] < MaxCalls
  /\ result' = [result EXCEPT ![i] = validate(settings[i])]
  /\ calls' = [calls EXCEPT ![i] = calls[i] + 1]
  /\ UNCHANGED settings

Next ==
  \/ \E i \in Slots : Default(i)
  \/ \E i \in Slots : Deserialize(i)
  \/ \E i \in Slots : Validate(i)

Spec == Init /\ [][Next]_vars

\* The naming rule on its own, as tests::test_validation exercises it: one
\* ContainsAllOf value holding a single string, validated.
InitRule ==
  /\ \E s \in RuleStrings :
       settings = [i \in Slots |->
                     IF i = 1
                     THEN [criteria |-> "ContainsAllOf",
                           values |-> [elems |-> {s}, iter |-> <<s>>]]
                     ELSE default]
  /\ result = [i \in Slots |-> NoResult]
  /\ calls = [i \in Slots |-> 0]

ValidateCase == Validate(1)

NextRule == ValidateCase

SpecRule == InitRule /\ [][NextRule]_vars

\* ------------------------------------------------- the rule, as specified
AlphaNum == Lower \cup Upper \cup Digit

\* the offsets of s holding the character c
Occurrences(s, c) == {i \in 1..Len(s) : s[i] = c}

\* a key: starts and ends alphanumeric, inside also _ . -
KeyShape(k) ==
  /\ Len(k) >= 1
  /\ k[1] \in AlphaNum
  /\ k[Len(k)] \in AlphaNum
  /\ \A i \in 1..Len(k) : k[i] \in AlphaNum \cup {"_", ".", "-"}

\* a prefix without its '/': non-empty labels of lowercase letters, digits
\* and hyphens separated by single dots, no label starting or ending with
\* a hyphen
PrefixShape(p) ==
  /\ Len(p) >= 1
  /\ \A i \in 1..Len(p) : p[i] \in Lower \cup Digit \cup {"-", "."}
  /\ \A i \in 1..Len(p) :
        p[i] \in {"-", "."} =>
          /\ i > 1
          /\ i < Len(p)
          /\ p[i - 1] \in Lower \cup Digit \/ (p[i] = "-" /\ p[i - 1] = "-")
          /\ p[i + 1] \in Lower \cup Digit \/ (p[i] = "-" /\ p[i + 1] = "-")

\* the whole string: an optional prefix closed by the only '/', then a key
WellFormed(s) ==
  LET slashes == Occurrences(s, "/")
  IN IF slashes = {} THEN KeyShape(s)
     ELSE /\ Cardinality(slashes) = 1
          /\ LET at == CHOOSE i \in slashes : TRUE
             IN /\ PrefixShape(SubSeq(s, 1, at - 1))
                /\ KeyShape(SubSeq(s, at + 1, Len(s)))

IllFormed(S) == {k \in S : ~WellFormed(k)}

RECURSIVE Listing(_)
\* the keys of the sequence o written one after the other with ", " between
Listing(o) ==
  IF Len(o) = 0 THEN <<>>
  ELSE IF Len(o) = 1 THEN o[1]
  ELSE Listing(SubSeq(o, 1, Len(o) - 1)) \o <<",", " ">> \o o[Len(o)]

\* r is the naming error that lists exactly the keys of K, each once
NamingError(r, K) ==
  /\ ~r.ok
  /\ \E o \in Orderings(K) : r.msg = InvalidNamesPrefix \o Listing(o)

\* r is the error of the wrapped BaseSettings, as it produced it
StructuralError(r) == r = Err(BaseSettingsError)

StartsWith(m, p) == Len(m) >= Len(p) /\ SubSeq(m, 1, Len(p)) = p

Keys(i) == settings[i].values.elems

\* ------------------------------------------------------------- properties
\* C1: a validated Settings whose set is non-empty and holds only
\* well-formed keys has the result Ok, whatever the size of the set.
C1_WellFormedSetsPass ==
  \A i \in Slots :
    (calls[i] > 0 /\ Keys(i) # {} /\ IllFormed(Keys(i)) = {}) => result[i] = Ok

C1_Witness ==
  \E i \in Slots :
    /\ calls[i] > 0
    /\ Cardinality(Keys(i)) >= 2
    /\ IllFormed(Keys(i)) = {}
    /\ result[i] = Ok

\* C2: a validated Settings whose set holds an ill-formed key has an error
\* whose message is "Invalid annotation names: " followed by the ill-formed
\* keys, each once and no other key, joined with ", ".
C2_IllFormedKeysReported ==
  \A i \in Slots :
    (calls[i] > 0 /\ IllFormed(Keys(i)) # {}) =>
      NamingError(result[i], IllFormed(Keys(i)))

C2_Witness ==
  \E i, j \in Slots :
    /\ calls[i] > 0
    /\ Cardinality(IllFormed(Keys(i))) >= 2
    /\ NamingError(result[i], IllFormed(Keys(i)))
    /\ calls[j] > 0
    /\ IllFormed(Keys(j)) # {}
    /\ Keys(j) \ IllFormed(Keys(j)) # {}
    /\ NamingError(result[j], IllFormed(Keys(j)))

\* C3: when the wrapped BaseSettings fails its own validation, the result of
\* validate() is that very error, and never a naming error.
C3_StructuralErrorPropagated ==
  \A i \in Slots :
    (calls[i] > 0 /\ ~BaseSettings_validate(settings[i]).ok) =>
      /\ result[i] = BaseSettings_validate(settings[i])
      /\ ~StartsWith(result[i].msg, InvalidNamesPrefix)

C3_Witness ==
  \E i \in Slots :
    /\ calls[i] > 0
    /\ Keys(i) = {}
    /\ settings[i].criteria = "ContainsAllOf"
    /\ StructuralError(result[i])

\* C4: validated as a singleton set, every string of the truth table that
\* is listed as valid passes and every string listed as invalid fails.
C4_TruthTable ==
  \A i \in Slots :
    calls[i] > 0 =>
      /\ \A s \in TableValid : Keys(i) = {s} => result[i].ok
      /\ \A s \in TableInvalid : Keys(i) = {s} => ~result[i].ok

C4_Witness ==
  \E i \in Slots :
    /\ calls[i] > 0
    /\ Keys(i) = {<<"E","x","a","m","p","l","e",".","c","o","m","/",
                    "m","y","-","a","n","n","o","t","a","t","i","o","n">>}
    /\ ~result[i].ok

\* C5: Default yields the ContainsAnyOf variant with an empty set, and a
\* validate() call (a step that counts one more call) on that value fails
\* with the structural error.
C5_DefaultFailsValidation ==
  [][\A i \in Slots :
       /\ Default(i) =>
            /\ settings'[i].criteria = "ContainsAnyOf"
            /\ settings'[i].values.elems = {}
       /\ (calls'[i] = calls[i] + 1 /\ settings[i] = default) =>
            /\ StructuralError(result'[i])
            /\ ~StartsWith(result'[i].msg, InvalidNamesPrefix)]_vars

C5_Witness ==
  \E i \in Slots :
    /\ calls[i] > 0
    /\ settings[i] = default
    /\ settings[i].criteria = "ContainsAnyOf"
    /\ ~result[i].ok

C7_EqualSettingsSameText ==
  \A i, j \in Slots :
    (/\ calls[i] > 0
     /\ calls[j] > 0
     /\ settings[i].criteria = settings[j].criteria
     /\ Keys(i) = Keys(j)) => result[i] = result[j]

\* C7 amended: two validated Settings values with the same variant and the
\* same set of strings both pass, or both fail with the same structural
\* error, or both fail with a naming error listing the same keys; the texts
\* are identical when the two sets are iterated in the same order.
C7_EqualSettingsSameOutcome ==
  \A i, j \in Slots :
    (/\ calls[i] > 0
     /\ calls[j] > 0
     /\ settings[i].criteria = settings[j].criteria
     /\ Keys(i) = Keys(j)) =>
       /\ \/ result[i] = Ok /\ result[j] = Ok
          \/ StructuralError(result[i]) /\ result[j] = result[i]
          \/ \E K \in SUBSET Keys(i) :
               K # {} /\ NamingError(result[i], K) /\ NamingError(result[j], K)
       /\ settings[i].values.iter = settings[j].values.iter => result[i] = result[j]

C7_Witness ==
  \E i, j \in Slots :
    /\ calls[i] > 0
    /\ calls[j] > 0
    /\ settings[i].criteria = settings[j].criteria
    /\ Keys(i) = Keys(j)
    /\ result[i] # result[j]

\* C8: a validated Settings with the result Ok has a non-empty set in which
\* every key is well-formed.
C8_PassImpliesWellFormed ==
  \A i \in Slots :
    (calls[i] > 0 /\ result[i].ok) =>
      /\ Keys(i) # {}
      /\ \A k \in Keys(i) : WellFormed(k)

C8_Witness ==
  \E i \in Slots :
    /\ calls[i] > 0
    /\ result[i].ok
    /\ \E k \in Keys(i) : Occurrences(k, "/") # {}

C10_VariantIndependent ==
  \A i, j \in Slots :
    (/\ calls[i] > 0
     /\ calls[j] > 0
     /\ settings[i].criteria # settings[j].criteria
     /\ Keys(i) = Keys(j)) =>
       \/ result[i].ok /\ result[j].ok
       \/ StructuralError(result[i]) /\ StructuralError(result[j])
       \/ \E K \in SUBSET Keys(i) :
            K # {} /\ NamingError(result[i], K) /\ NamingError(result[j], K)

C10_Witness ==
  \E i, j \in Slots :
    /\ calls[i] > 0
    /\ calls[j] > 0
    /\ settings[i].criteria = "ContainsAnyOf"
    /\ settings[j].criteria = "ContainsAllOf"
    /\ Keys(i) = Keys(j)
    /\ IllFormed(Keys(i)) # {}
    /\ ~result[i].ok

====
